---- MODULE Spec2Model ----
(***************************************************************************)
(* Model of src/main.ts: one invocation of run() - input validation,       *)
(* request construction, requestWithRetries (the retry/backoff loop),      *)
(* readJsonSafely and the projection of the payload onto host outputs.     *)
(*                                                                         *)
(* Text is modelled as a sequence of one-character strings, so that the    *)
(* regular expression, trim(), Number() and String() are computed.         *)
(* Host calls (core.setSecret / core.setOutput / core.setFailed) are       *)
(* appended to `log` in the order the code makes them.                     *)
(***************************************************************************)
EXTENDS Integers, Sequences, FiniteSets, TLC

VARIABLES inputs, pc, req, attempt, backoffMs, waitMs, res, payload, err,
          log, exec, fetches, nWaits, inFlight, timer, drained

vars == <<inputs, pc, req, attempt, backoffMs, waitMs, res, payload, err,
          log, exec, fetches, nWaits, inFlight, timer, drained>>

(***************************************************************************)
(* Program constants                                                       *)
(***************************************************************************)
MAX_ATTEMPTS == 5

INITIAL_BACKOFF_MS == 500

MAX_BACKOFF_MS == 8000

BASE_URL == <<"https://abacus.jasoncameron.dev">>

(***************************************************************************)
(* Bounds of the model                                                     *)
(***************************************************************************)
\* Physical attempts are counted up to this cap (the code stops at 5).
AttemptCap == 8

\* Names over NameAlphabet are enumerated up to this length.
MaxNameLen == 3

\* How many fields of a decoded payload are present at once.
MaxPresent == 2

\* How many of the five text inputs may differ from a well-formed default.
MaxIllFormed == 1

(***************************************************************************)
(* Text helpers                                                            *)
(***************************************************************************)
Min(a, b) == IF a <= b THEN a ELSE b

Max(a, b) == IF a >= b THEN a ELSE b

Digits == {"0", "1", "2", "3", "4", "5", "6", "7", "8", "9"}

Letters == {"a", "b", "c", "d", "e", "f", "g", "h", "i", "j", "k", "l", "m",
            "n", "o", "p", "q", "r", "s", "t", "u", "v", "w", "x", "y", "z",
            "A", "B", "C", "D", "E", "F", "G", "H", "I", "J", "K", "L", "M",
            "N", "O", "P", "Q", "R", "S", "T", "U", "V", "W", "X", "Y", "Z"}

DigitVal(c) ==
    CASE c = "0" -> 0 [] c = "1" -> 1 [] c = "2" -> 2 [] c = "3" -> 3
      [] c = "4" -> 4 [] c = "5" -> 5 [] c = "6" -> 6 [] c = "7" -> 7
      [] c = "8" -> 8 [] c = "9" -> 9

DigitChar(d) ==
    CASE d = 0 -> "0" [] d = 1 -> "1" [] d = 2 -> "2" [] d = 3 -> "3"
      [] d = 4 -> "4" [] d = 5 -> "5" [] d = 6 -> "6" [] d = 7 -> "7"
      [] d = 8 -> "8" [] d = 9 -> "9"

\* String.prototype.trim, for the one white-space character of the model.
RECURSIVE TrimLeft(_)
TrimLeft(s) == IF s # <<>> /\ Head(s) = " " THEN TrimLeft(Tail(s)) ELSE s

RECURSIVE TrimRight(_)
TrimRight(s) ==
    IF s # <<>> /\ s[Len(s)] = " " THEN TrimRight(SubSeq(s, 1, Len(s) - 1)) ELSE s

Trim(s) == TrimRight(TrimLeft(s))

\* Value of a sequence of decimal digits.
RECURSIVE DecVal(_)
DecVal(ds) ==
    IF ds = <<>> THEN 0
    ELSE DecVal(SubSeq(ds, 1, Len(ds) - 1)) * 10 + DigitVal(ds[Len(ds)])

AllDigits(s) == \A i \in 1..Len(s) : s[i] \in Digits

\* Number(raw) for texts over digits, sign, ".", " " and letters that form
\* no numeric literal: [nan, neg, int, frac] with frac = the fraction is not 0.
NaN == [nan |-> TRUE, neg |-> FALSE, int |-> 0, frac |-> FALSE]

NumberOf(raw) ==
    LET t == Trim(raw)
        signed == t # <<>> /\ t[1] \in {"-", "+"}
        body == IF signed THEN Tail(t) ELSE t
        dots == {i \in 1..Len(body) : body[i] = "."}
        dot == IF dots = {} THEN Len(body) + 1 ELSE CHOOSE i \in dots : TRUE
        ip == SubSeq(body, 1, dot - 1)
        fp == SubSeq(body, dot + 1, Len(body))
    IN  IF t = <<>> THEN [nan |-> FALSE, neg |-> FALSE, int |-> 0, frac |-> FALSE]
        ELSE IF Cardinality(dots) > 1 \/ ~AllDigits(ip) \/ ~AllDigits(fp)
                \/ Len(ip) + Len(fp) = 0 THEN NaN
        ELSE [nan |-> FALSE, neg |-> signed /\ t[1] = "-", int |-> DecVal(ip),
              frac |-> \E i \in 1..Len(fp) : fp[i] # "0"]

\* Number.isFinite(v) && Number.isInteger(v)
IsInteger(v) == ~v.nan /\ ~v.frac

IntValue(v) == IF v.neg THEN 0 - v.int ELSE v.int

\* String(n) for an integer n.
RECURSIVE NatToStr(_)
NatToStr(n) ==
    IF n < 10 THEN <<DigitChar(n)>> ELSE NatToStr(n \div 10) \o <<DigitChar(n % 10)>>

IntToStr(n) == IF n < 0 THEN <<"-">> \o NatToStr(0 - n) ELSE NatToStr(n)

(***************************************************************************)
(* Errors and host calls                                                   *)
(***************************************************************************)
NoError == [raised |-> FALSE, msg |-> <<>>]

Error(m) == [raised |-> TRUE, msg |-> m]

SetSecret(v) == [call |-> "setSecret", name |-> "", text |-> v]

SetOutput(n, v) == [call |-> "setOutput", name |-> n, text |-> v]

SetFailed(m) == [call |-> "setFailed", name |-> "", text |-> m]

(***************************************************************************)
(* Validator                                                               *)
(***************************************************************************)
Operations == {"hit", "create", "get", "info", "set", "update", "reset", "delete"}

\* core.getInput("operation") || "hit"
OperationOf(in) == IF in.operation = "" THEN "hit" ELSE in.operation

\* variant with the lower length bound off by one
NAME_RE_OffByOne(s) ==
    /\ Len(s) > 3
    /\ Len(s) <= 64
    /\ \A i \in 1..Len(s) : s[i] \in Letters \cup Digits \cup {"_", ".", "-"}

\* NAME_RE = /^[A-Za-z0-9_.-]{3,64}$/
NAME_RE(s) ==
    /\ Len(s) >= 3
    /\ Len(s) <= 64
    /\ \A i \in 1..Len(s) : s[i] \in Letters \cup Digits \cup {"_", ".", "-"}

\* the condition under which requireNonEmpty throws
IsBlank(value) == value = <<>> \/ Len(Trim(value)) = 0

requireNonEmpty(name, value) ==
    IF IsBlank(value) THEN Error(<<"Missing required input: ", name>>) ELSE NoError

validateName(kind, value) ==
    IF ~NAME_RE(value)
    THEN Error(<<"Invalid ", kind, ": must match ^[A-Za-z0-9_-.]{3,64}$ (got \"">>
               \o value \o <<"\")">>)
    ELSE NoError

\* variant that tests Number.isFinite only
parseIntegerLax(name, raw) ==
    LET v == NumberOf(raw)
    IN  IF v.nan
        THEN [threw |-> TRUE, val |-> 0,
              error |-> Error(<<"Invalid ", name, ": expected integer, got \"">>
                              \o raw \o <<"\"">>)]
        ELSE [threw |-> FALSE, val |-> IntValue(v), error |-> NoError]

\* parseInteger: [threw, val, error]
parseInteger(name, raw) ==
    LET v == NumberOf(raw)
    IN  IF ~IsInteger(v)
        THEN [threw |-> TRUE, val |-> 0,
              error |-> Error(<<"Invalid ", name, ": expected integer, got \"">>
                              \o raw \o <<"\"">>)]
        ELSE [threw |-> FALSE, val |-> IntValue(v), error |-> NoError]

\* variant that forgets one of the four admin operations
isAdminOpShort(op) == op \in {"set", "update", "delete"}

isAdminOp(op) == op \in {"set", "update", "reset", "delete"}

methodFor(op) == IF isAdminOp(op) THEN "POST" ELSE "GET"

\* core.getInput("initializer") || "0"
InitializerRaw(in) == IF in.initializer = <<>> THEN <<"0">> ELSE in.initializer

\* The first error run() throws before any request is built (lines 144-163),
\* or NoError.
ValidationError(in) ==
    LET op == OperationOf(in)
    IN  IF requireNonEmpty("namespace", in.namespace).raised
          THEN requireNonEmpty("namespace", in.namespace)
        ELSE IF requireNonEmpty("key", in.key).raised
          THEN requireNonEmpty("key", in.key)
        ELSE IF validateName("namespace", in.namespace).raised
          THEN validateName("namespace", in.namespace)
        ELSE IF validateName("key", in.key).raised
          THEN validateName("key", in.key)
        ELSE IF isAdminOp(op) /\ requireNonEmpty("admin_key", in.admin_key).raised
          THEN requireNonEmpty("admin_key", in.admin_key)
        ELSE IF op \in {"set", "update"} /\ IsBlank(in.value)
          THEN Error(<<"Missing required input: value (required for operation=",
                       op, ")">>)
        ELSE IF op = "create" /\ parseInteger("initializer", InitializerRaw(in)).threw
          THEN parseInteger("initializer", InitializerRaw(in)).error
        ELSE IF op \in {"set", "update"} /\ parseInteger("value", in.value).threw
          THEN parseInteger("value", in.value).error
        ELSE NoError

\* core.setSecret(adminKey) at line 155 is reached when the four name checks
\* and requireNonEmpty("admin_key") passed, whatever is validated after it.
InputSecretMarked(in) ==
    /\ ~requireNonEmpty("namespace", in.namespace).raised
    /\ ~requireNonEmpty("key", in.key).raised
    /\ ~validateName("namespace", in.namespace).raised
    /\ ~validateName("key", in.key).raised
    /\ isAdminOp(OperationOf(in))
    /\ ~requireNonEmpty("admin_key", in.admin_key).raised

(***************************************************************************)
(* Request builder                                                         *)
(***************************************************************************)
normalizeBaseUrl(url) ==
    IF url # <<>> /\ url[Len(url)] = "/" THEN SubSeq(url, 1, Len(url) - 1) ELSE url

URIUnreserved == Letters \cup Digits \cup {"-", "_", ".", "!", "~", "*", "'", "(", ")"}

EncodeChar(c) ==
    IF c \in URIUnreserved THEN <<c>>
    ELSE IF c = " " THEN <<"%", "2", "0">>
    ELSE IF c = "/" THEN <<"%", "2", "F">>
    ELSE <<"%", "?", "?">>

RECURSIVE encodeURIComponent(_)
encodeURIComponent(s) ==
    IF s = <<>> THEN <<>> ELSE EncodeChar(Head(s)) \o encodeURIComponent(Tail(s))

\* initializer / value are [defined, val]
Undefined == [defined |-> FALSE, val |-> 0]

Defined(n) == [defined |-> TRUE, val |-> n]

buildUrl(op, namespace, key, initializer, value) ==
    LET base == normalizeBaseUrl(BASE_URL)
        path == <<"/", op, "/">> \o encodeURIComponent(namespace) \o <<"/">>
                \o encodeURIComponent(key)
        q1 == IF op = "create" /\ initializer.defined
              THEN <<"?", "initializer", "=">> \o IntToStr(initializer.val) ELSE <<>>
        q2 == IF op \in {"set", "update"} /\ value.defined
              THEN <<"?", "value", "=">> \o IntToStr(value.val) ELSE <<>>
    IN  base \o path \o q1 \o q2

NoReq == [url |-> <<>>, method |-> "", accept |-> "", authorization |-> <<>>]

\* lines 162-174 of run(): url, method and headers of the request
BuildRequest(in) ==
    LET op == OperationOf(in)
        initializer == IF op = "create"
                       THEN Defined(parseInteger("initializer", InitializerRaw(in)).val)
                       ELSE Undefined
        value == IF op \in {"set", "update"}
                 THEN Defined(parseInteger("value", in.value).val)
                 ELSE Undefined
    IN  [url |-> buildUrl(op, in.namespace, in.key, initializer, value),
         method |-> methodFor(op),
         accept |-> "application/json",
         authorization |-> IF isAdminOp(op) THEN <<"Bearer ">> \o in.admin_key
                           ELSE <<>>]

(***************************************************************************)
(* Responses, as the remote service may produce them                       *)
(***************************************************************************)
\* A Retry-After header: absent (headers.get returns null) or its text.
NoHeader == [present |-> FALSE, text |-> <<>>]

Header(t) == [present |-> TRUE, text |-> t]

RetryAfterHeaders ==
    {NoHeader, Header(<<>>), Header(<<"0">>), Header(<<"2">>),
     Header(<<"7", "0", "0">>), Header(<<"-", "3">>), Header(<<"2", ".", "5">>),
     Header(<<"a", "b", "c">>)}

RetryStatuses == {429, 500, 599}

FinalStatuses == {200, 299, 300, 404, 600}

\* status 0 stands for "no response": the exchange failed at network level.
NoResponse == [status |-> 0, ra |-> NoHeader]

Responses ==
    [status : RetryStatuses, ra : RetryAfterHeaders]
      \cup [status : FinalStatuses, ra : {NoHeader}]

\* JSON values of payload fields: [t, n, s]
Absent == [t |-> "absent", n |-> 0, s |-> <<>>]

Null == [t |-> "null", n |-> 0, s |-> <<>>]

Num(n) == [t |-> "num", n |-> n, s |-> <<>>]

Str(s) == [t |-> "str", n |-> 0, s |-> s]

Fields == {"value", "namespace", "key", "admin_key", "exists", "expires_in",
           "expires_str", "full_key", "is_genuine", "status", "message", "error"}

EmptyObject == [f \in Fields |-> Absent]

Obj1(f, v) == [EmptyObject EXCEPT ![f] = v]

SampleValues == {Null, Num(10), Str(<<"a", "b", "c", "1", "2", "3">>)}

CreateReply ==
    [EmptyObject EXCEPT !["value"] = Num(5), !["namespace"] = Str(<<"n", "s", "1">>),
                        !["key"] = Str(<<"k", ".", "1">>),
                        !["admin_key"] = Str(<<"a", "b", "c", "1", "2", "3">>)]

SampleObjects ==
    {EmptyObject, CreateReply}
      \cup {Obj1(f, v) : f \in {"value", "admin_key", "error", "message"},
                         v \in SampleValues}

\* A response body, by what res.text() and JSON.parse make of it:
\*   empty  -- the text is ""
\*   object -- the text is a JSON object with the fields obj
\*   null   -- the text is the JSON value null
\*   scalar -- the text is another JSON value (number, string, boolean, array)
\*   text   -- the text raw is not JSON
Body(k, o, r) == [kind |-> k, obj |-> o, raw |-> r]

Bodies ==
    {Body("empty", EmptyObject, <<>>), Body("null", EmptyObject, <<>>),
     Body("scalar", EmptyObject, <<>>),
     Body("text", EmptyObject, <<"n", "o", "t", "-", "j", "s", "o", "n">>)}
      \cup {Body("object", o, <<>>) : o \in SampleObjects}

NoPayload == [kind |-> "none", obj |-> EmptyObject]

(***************************************************************************)
(* Response interpreter                                                    *)
(***************************************************************************)
\* readJsonSafely, once res.text() has delivered the body
readJsonSafely(b) ==
    IF b.kind = "empty" THEN [kind |-> "object", obj |-> EmptyObject]
    ELSE IF b.kind = "text"
      THEN [kind |-> "object", obj |-> Obj1("error", Str(b.raw))]
    ELSE [kind |-> b.kind, obj |-> b.obj]

\* variant that takes every status below 400 for a success
OkBelow400(status) == status >= 200 /\ status < 400

\* res.ok
Ok(status) == status >= 200 /\ status <= 299

\* payload.f : a property read; undefined for a value that is not an object
Field(p, f) == IF p.kind = "object" THEN p.obj[f] ELSE Absent

\* String(value)
ToText(v) == IF v.t = "num" THEN IntToStr(v.n) ELSE v.s

\* variant that drops only undefined, so that null is emitted
setOutputIfPresentNull(name, v) ==
    IF v.t = "absent" THEN <<>> ELSE <<SetOutput(name, ToText(v))>>

\* lines 131-135
setOutputIfPresent(name, v) ==
    IF v.t \in {"absent", "null"} THEN <<>> ELSE <<SetOutput(name, ToText(v))>>

\* variant that leaves the operation name out of the message
StatusErrorNoOp(p, status, op) ==
    LET errMsg == IF Field(p, "error").t = "str" THEN Field(p, "error").s
                  ELSE <<"Request failed with status ">> \o IntToStr(status)
    IN  Error(errMsg)

\* lines 179-185: the message of the error thrown for a non-2xx response
StatusError(p, status, op) ==
    LET errMsg == IF Field(p, "error").t = "str" THEN Field(p, "error").s
                  ELSE <<"Request failed with status ">> \o IntToStr(status)
    IN  Error(errMsg \o <<" (operation=", op, ")">>)

\* lines 188-210: the host calls of a successful invocation, in order
EmitOutputs(p, op) ==
    setOutputIfPresent("value", Field(p, "value"))
      \o (IF op = "create"
          THEN setOutputIfPresent("namespace", Field(p, "namespace"))
                 \o setOutputIfPresent("key", Field(p, "key"))
                 \o setOutputIfPresent("admin_key", Field(p, "admin_key"))
                 \o (IF Field(p, "admin_key").t = "str"
                     THEN <<SetSecret(Field(p, "admin_key").s)>> ELSE <<>>)
          ELSE <<>>)
      \o (IF op = "info"
          THEN setOutputIfPresent("exists", Field(p, "exists"))
                 \o setOutputIfPresent("expires_in", Field(p, "expires_in"))
                 \o setOutputIfPresent("expires_str", Field(p, "expires_str"))
                 \o setOutputIfPresent("full_key", Field(p, "full_key"))
                 \o setOutputIfPresent("is_genuine", Field(p, "is_genuine"))
          ELSE <<>>)
      \o (IF op = "delete"
          THEN setOutputIfPresent("status", Field(p, "status"))
                 \o setOutputIfPresent("message", Field(p, "message"))
          ELSE <<>>)

\* run() from line 177 on: [error, calls]
InterpretResponse(status, b, readOk, op) ==
    LET p == readJsonSafely(b)
    IN  IF ~readOk
          THEN [payload |-> NoPayload, calls |-> <<>>,
                error |-> Error(<<"body stream failed">>)]
        ELSE IF ~Ok(status)
          THEN [payload |-> p, calls |-> <<>>, error |-> StatusError(p, status, op)]
        ELSE IF p.kind = "null"
          THEN [payload |-> p, calls |-> <<>>,
                error |-> Error(<<"Cannot read properties of null (reading 'value')">>)]
        ELSE [payload |-> p, calls |-> EmitOutputs(p, op), error |-> NoError]

(***************************************************************************)
(* Inputs supplied by the host                                             *)
(***************************************************************************)
OperationInputs == Operations \cup {"", "bogus"}

\* ill-formed names: empty, blank, too short, a character outside the class
BadNames == {<<>>, <<" ", " ", " ">>, <<"a", "b">>, <<"a", "/", "b", "1">>}

NamespaceInputs == {<<"n", "s", "1">>} \cup BadNames

KeyInputs == {<<"k", ".", "1">>} \cup BadNames

IntegerInputs == {<<"5">>, <<>>, <<"-", "3">>, <<"2", ".", "5">>, <<"x">>}

AdminKeyInputs == {<<"s", "k", "1">>, <<>>, <<" ">>}

WellFormed ==
    [namespace |-> <<"n", "s", "1">>, key |-> <<"k", ".", "1">>,
     initializer |-> <<"5">>, value |-> <<"5">>, admin_key |-> <<"s", "k", "1">>]

TextInputNames == {"namespace", "key", "initializer", "value", "admin_key"}

InputRecords ==
    {in \in [operation : OperationInputs, namespace : NamespaceInputs, key : KeyInputs,
             initializer : IntegerInputs, value : IntegerInputs,
             admin_key : AdminKeyInputs] :
        Cardinality({f \in TextInputNames : in[f] # WellFormed[f]}) <= MaxIllFormed}

\* core.getInput(name) for each input: @actions/core returns the value with
\* leading and trailing white space removed (trimWhitespace defaults to true).
getInputs(raw) ==
    [operation |-> raw.operation, namespace |-> Trim(raw.namespace),
     key |-> Trim(raw.key), initializer |-> Trim(raw.initializer),
     value |-> Trim(raw.value), admin_key |-> Trim(raw.admin_key)]

(***************************************************************************)
(* Retry executor: the helpers of requestWithRetries                       *)
(***************************************************************************)
\* variants of the ceiling test: one attempt too many / no ceiling
CanRetryOffByOne(a) == a <= MAX_ATTEMPTS

CanRetryAlways(a) == a >= 0

\* `attempt < MAX_ATTEMPTS` of lines 90 and 101
CanRetry(a) == a < MAX_ATTEMPTS

\* `attempt >= MAX_ATTEMPTS` of line 111
Exhausted(a) == a >= MAX_ATTEMPTS

\* variant without the upper end of the 5xx range
IsServerErrorOpen(status) == status >= 500

\* `res.status >= 500 && res.status <= 599`
IsServerError(status) == status >= 500 /\ status <= 599

\* variant that grows linearly instead of doubling
NextBackoffLinear(b) == Min(b + INITIAL_BACKOFF_MS, MAX_BACKOFF_MS)

\* Math.min(backoffMs * 2, 8000)
NextBackoff(b) == Min(b * 2, MAX_BACKOFF_MS)

\* variant without the clamp at zero
RetryAfterWaitNoClamp(ra, b) ==
    IF ra.present /\ ra.text # <<>>
    THEN [threw |-> parseInteger("Retry-After", ra.text).threw,
          ms |-> parseInteger("Retry-After", ra.text).val]
    ELSE [threw |-> FALSE, ms |-> b]

\* variant that never waits less than the stored backoff
RetryAfterWaitFloor(ra, b) ==
    IF ra.present /\ ra.text # <<>>
    THEN [threw |-> parseInteger("Retry-After", ra.text).threw,
          ms |-> Max(b, parseInteger("Retry-After", ra.text).val)]
    ELSE [threw |-> FALSE, ms |-> b]

\* line 92: ra ? Math.max(0, parseInteger("Retry-After", ra)) : backoffMs
RetryAfterWait(ra, b) ==
    IF ra.present /\ ra.text # <<>>
    THEN [threw |-> parseInteger("Retry-After", ra.text).threw,
          ms |-> Max(0, parseInteger("Retry-After", ra.text).val)]
    ELSE [threw |-> FALSE, ms |-> b]

\* variant in which sleep() is not awaited
ReadyToAttemptEarly == pc \in {"attempt", "sleeping"}

\* the loop is at its head (line 84), about to issue the next fetch
ReadyToAttempt == pc = "attempt"

(***************************************************************************)
(* The state machine                                                       *)
(***************************************************************************)
Init ==
    /\ inputs \in InputRecords
    /\ pc = "start"
    /\ req = NoReq
    /\ attempt = 0
    /\ backoffMs = INITIAL_BACKOFF_MS
    /\ waitMs = 0
    /\ res = NoResponse
    /\ payload = NoPayload
    /\ err = NoError
    /\ log = <<>>
    /\ exec = "Idle"
    /\ fetches = 0
    /\ nWaits = 0
    /\ inFlight = 0
    /\ timer = FALSE
    /\ drained = FALSE

\* run(), lines 138-176: validate, mark the admin key secret, build the
\* request and enter requestWithRetries (attempt = 0, backoffMs = 500).
Validate ==
    /\ pc = "start"
    /\ log' = IF InputSecretMarked(getInputs(inputs))
              THEN <<SetSecret(getInputs(inputs).admin_key)>> ELSE <<>>
    /\ IF ValidationError(getInputs(inputs)).raised
       THEN /\ err' = ValidationError(getInputs(inputs))
            /\ pc' = "rejected"
            /\ UNCHANGED <<req, attempt, backoffMs, exec>>
       ELSE /\ req' = BuildRequest(getInputs(inputs))
            /\ attempt' = 0
            /\ backoffMs' = INITIAL_BACKOFF_MS
            /\ exec' = "Attempting"
            /\ pc' = "attempt"
            /\ err' = err
    /\ UNCHANGED <<inputs, waitMs, res, payload, fetches, nWaits, inFlight, timer, drained>>

\* lines 84-87: attempt += 1 and the fetch is issued
Attempt ==
    /\ ReadyToAttempt
    /\ fetches < AttemptCap
    /\ attempt' = attempt + 1
    /\ fetches' = fetches + 1
    /\ inFlight' = inFlight + 1
    /\ exec' = "Attempting"
    /\ drained' = FALSE
    /\ pc' = "fetching"
    /\ UNCHANGED <<inputs, req, backoffMs, waitMs, res, payload, err, log, nWaits,
                   timer>>

\* the catch block, lines 109-116, entered with error e
Catch(e) ==
    IF Exhausted(attempt)
    THEN /\ err' = e
         /\ exec' = "Failed"
         /\ pc' = "rejected"
         /\ UNCHANGED <<waitMs, timer>>
    ELSE /\ waitMs' = backoffMs
         /\ timer' = TRUE
         /\ exec' = "Waiting"
         /\ pc' = "sleeping"
         /\ err' = err

\* the fetch promise rejects: network-level failure
FetchReject ==
    /\ pc = "fetching"
    /\ inFlight' = inFlight - 1
    /\ res' = NoResponse
    /\ Catch(Error(<<"fetch failed">>))
    /\ UNCHANGED <<inputs, req, attempt, backoffMs, payload, log, fetches, nWaits,
                   drained>>

\* variant that unifies the two retry paths: Retry-After is honoured on 5xx too
FetchResolveUnified(r) ==
    /\ pc = "fetching"
    /\ inFlight' = inFlight - 1
    /\ res' = r
    /\ IF (r.status = 429 \/ IsServerError(r.status)) /\ CanRetry(attempt)
       THEN IF RetryAfterWait(r.ra, backoffMs).threw
            THEN Catch(parseInteger("Retry-After", r.ra.text).error)
            ELSE /\ waitMs' = RetryAfterWait(r.ra, backoffMs).ms
                 /\ pc' = "draining"
                 /\ UNCHANGED <<err, exec, timer>>
       ELSE /\ exec' = "Succeeded"
            /\ pc' = "reading"
            /\ UNCHANGED <<err, waitMs, timer>>
    /\ UNCHANGED <<inputs, req, attempt, backoffMs, payload, log, fetches, nWaits,
                   drained>>

\* the fetch promise resolves with response r: lines 88-108 up to the next await
FetchResolve(r) ==
    /\ pc = "fetching"
    /\ inFlight' = inFlight - 1
    /\ res' = r
    /\ IF r.status = 429 /\ CanRetry(attempt)
       THEN IF RetryAfterWait(r.ra, backoffMs).threw
            THEN Catch(parseInteger("Retry-After", r.ra.text).error)
            ELSE /\ waitMs' = RetryAfterWait(r.ra, backoffMs).ms
                 /\ pc' = "draining"
                 /\ UNCHANGED <<err, exec, timer>>
       ELSE IF IsServerError(r.status) /\ CanRetry(attempt)
       THEN /\ waitMs' = backoffMs
            /\ pc' = "draining"
            /\ UNCHANGED <<err, exec, timer>>
       ELSE /\ exec' = "Succeeded"
            /\ pc' = "reading"
            /\ UNCHANGED <<err, waitMs, timer>>
    /\ UNCHANGED <<inputs, req, attempt, backoffMs, payload, log, fetches, nWaits,
                   drained>>

\* lines 94 / 102: `try { await res.text(); } catch {}` completes, whether the
\* body could be read or not, and sleep(waitMs) starts
DrainDone(readOk) ==
    /\ pc = "draining"
    /\ readOk \in BOOLEAN
    /\ drained' = TRUE
    /\ timer' = TRUE
    /\ exec' = "Waiting"
    /\ pc' = "sleeping"
    /\ UNCHANGED <<inputs, req, attempt, backoffMs, waitMs, res, payload, err, log,
                   fetches, nWaits, inFlight>>

\* the sleep timer fires: the backoff doubles, waitMs goes out of scope and
\* the loop continues
SleepDone ==
    /\ pc = "sleeping"
    /\ timer' = FALSE
    /\ nWaits' = nWaits + 1
    /\ backoffMs' = NextBackoff(backoffMs)
    /\ waitMs' = 0
    /\ pc' = "attempt"
    /\ UNCHANGED <<inputs, req, attempt, res, payload, err, log, exec, fetches,
                   inFlight, drained>>

\* run(), lines 177-210: the body arrives (or its stream fails) and the
\* response is interpreted
Interpret(b, readOk) ==
    /\ pc = "reading"
    /\ LET r == InterpretResponse(res.status, b, readOk, OperationOf(getInputs(inputs)))
       IN  /\ payload' = r.payload
           /\ err' = r.error
           /\ log' = log \o r.calls
           /\ pc' = IF r.error.raised THEN "rejected" ELSE "done"
    /\ UNCHANGED <<inputs, req, attempt, backoffMs, waitMs, res, exec, fetches, nWaits,
                   inFlight, timer, drained>>

\* variant that swallows the error
CatchHandlerSilent ==
    /\ pc = "rejected"
    /\ pc' = "done"
    /\ UNCHANGED <<inputs, req, attempt, backoffMs, waitMs, res, payload, err, log, exec,
                   fetches, nWaits, inFlight, timer, drained>>

\* run().catch, lines 213-216
CatchHandler ==
    /\ pc = "rejected"
    /\ log' = Append(log, SetFailed(err.msg))
    /\ pc' = "done"
    /\ UNCHANGED <<inputs, req, attempt, backoffMs, waitMs, res, payload, err, exec,
                   fetches, nWaits, inFlight, timer, drained>>

Next ==
    \/ Validate
    \/ Attempt
    \/ FetchReject
    \/ \E r \in Responses : FetchResolve(r)
    \/ \E ok \in BOOLEAN : DrainDone(ok)
    \/ SleepDone
    \/ \E b \in Bodies, ok \in BOOLEAN : Interpret(b, ok)
    \/ CatchHandler

Spec == Init /\ [][Next]_vars

\* The executor alone: every input is well-formed, so each run enters
\* requestWithRetries.  Every pending promise (fetch, body, timer) settles and
\* every continuation runs.
InitWellFormed ==
    /\ Init
    /\ \A f \in TextInputNames : inputs[f] = WellFormed[f]

FairExecSpec == InitWellFormed /\ [][Next]_vars /\ WF_vars(Next)

(***************************************************************************)
(* The validator as a function of the names it is given                    *)
(***************************************************************************)
NameAlphabet == {"a", "Z", "7", "_", ".", "-", " ", "/"}

RECURSIVE Repeat(_, _)
Repeat(c, n) == IF n = 0 THEN <<>> ELSE <<c>> \o Repeat(c, n - 1)

\* names around the upper length bound, well-formed or with one bad character
LongNames ==
    {Repeat("a", n) : n \in {4, 63, 64, 65, 66}}
      \cup {Repeat("a", n - 1) \o <<"/">> : n \in {4, 63, 64, 65}}

NameStrings ==
    LongNames \cup UNION {[1..k -> NameAlphabet] : k \in 0..MaxNameLen}

\* one of namespace and key is any name, everything else is well-formed
NameInputRecords ==
    {[operation |-> "hit", namespace |-> n, key |-> WellFormed.key,
      initializer |-> WellFormed.initializer, value |-> WellFormed.value,
      admin_key |-> WellFormed.admin_key] : n \in NameStrings}
      \cup
    {[operation |-> "hit", namespace |-> WellFormed.namespace, key |-> n,
      initializer |-> WellFormed.initializer, value |-> WellFormed.value,
      admin_key |-> WellFormed.admin_key] : n \in NameStrings}

NameInit ==
    /\ inputs \in NameInputRecords
    /\ pc = "start"
    /\ req = NoReq
    /\ attempt = 0
    /\ backoffMs = INITIAL_BACKOFF_MS
    /\ waitMs = 0
    /\ res = NoResponse
    /\ payload = NoPayload
    /\ err = NoError
    /\ log = <<>>
    /\ exec = "Idle"
    /\ fetches = 0
    /\ nWaits = 0
    /\ inFlight = 0
    /\ timer = FALSE
    /\ drained = FALSE

\* lines 144-147: the four checks of namespace and key, in order
NameError(namespace, key) ==
    IF requireNonEmpty("namespace", namespace).raised
      THEN requireNonEmpty("namespace", namespace)
    ELSE IF requireNonEmpty("key", key).raised
      THEN requireNonEmpty("key", key)
    ELSE IF validateName("namespace", namespace).raised
      THEN validateName("namespace", namespace)
    ELSE validateName("key", key)

\* the validator applied to the two names
CheckNames ==
    /\ pc = "start"
    /\ err' = NameError(inputs.namespace, inputs.key)
    /\ pc' = IF NameError(inputs.namespace, inputs.key).raised THEN "rejected"
             ELSE "checked"
    /\ UNCHANGED <<inputs, req, attempt, backoffMs, waitMs, res, payload, log, exec,
                   fetches, nWaits, inFlight, timer, drained>>

NameNext == CheckNames \/ CatchHandler

NameSpec == NameInit /\ [][NameNext]_vars

(***************************************************************************)
(* The output projection over payloads with any combination of fields      *)
(***************************************************************************)
\* JSON objects with at most k of the twelve fields present
RECURSIVE ObjectsUpTo(_)
ObjectsUpTo(k) ==
    IF k = 0 THEN {EmptyObject}
    ELSE ObjectsUpTo(k - 1)
           \cup {[o EXCEPT ![f] = v] : o \in ObjectsUpTo(k - 1), f \in Fields,
                                       v \in SampleValues}

ProjBodies ==
    {Body("empty", EmptyObject, <<>>), Body("null", EmptyObject, <<>>),
     Body("scalar", EmptyObject, <<>>), Body("object", CreateReply, <<>>)}
      \cup {Body("object", o, <<>>) : o \in ObjectsUpTo(MaxPresent)}

ProjResponses == [status : {200, 299, 404}, ra : {NoHeader}]

\* every operation, with well-formed inputs
ProjInputRecords ==
    {[operation |-> o, namespace |-> WellFormed.namespace, key |-> WellFormed.key,
      initializer |-> WellFormed.initializer, value |-> WellFormed.value,
      admin_key |-> WellFormed.admin_key] : o \in Operations}

ProjInit ==
    /\ inputs \in ProjInputRecords
    /\ pc = "start"
    /\ req = NoReq
    /\ attempt = 0
    /\ backoffMs = INITIAL_BACKOFF_MS
    /\ waitMs = 0
    /\ res = NoResponse
    /\ payload = NoPayload
    /\ err = NoError
    /\ log = <<>>
    /\ exec = "Idle"
    /\ fetches = 0
    /\ nWaits = 0
    /\ inFlight = 0
    /\ timer = FALSE
    /\ drained = FALSE

\* run() with a service that answers the first attempt
ProjNext ==
    \/ Validate
    \/ Attempt
    \/ \E r \in ProjResponses : FetchResolve(r)
    \/ \E b \in ProjBodies : Interpret(b, TRUE)
    \/ CatchHandler

ProjSpec == ProjInit /\ [][ProjNext]_vars

(***************************************************************************)
(* Observations used by the properties                                     *)
(***************************************************************************)
IsSetFailed(c) == c.call = "setFailed"

IsSetOutput(c) == c.call = "setOutput"

Failures == SelectSeq(log, IsSetFailed)

Outputs == SelectSeq(log, IsSetOutput)

\* a retry-eligible outcome of an attempt: network failure, 429 or 5xx
QualifyingFailure(r) ==
    r.status = 0 \/ r.status = 429 \/ (r.status >= 500 /\ r.status <= 599)

\* a text that is a decimal integer literal: optional sign, then digits
IsIntegerText(t) ==
    LET d == IF t # <<>> /\ t[1] \in {"-", "+"} THEN Tail(t) ELSE t
    IN  d # <<>> /\ AllDigits(d)

\* the wait before the k-th retry and the backoff stored after k retries
BackoffSequence == <<500, 1000, 2000, 4000, 8000>>

(***************************************************************************)
(* Properties                                                              *)
(***************************************************************************)
\* C1: one invocation makes at most 5 physical attempts; after a 5th attempt
\* that is a qualifying failure there is no wait and no 6th attempt: a network
\* error is propagated as the failure, a 429/5xx is returned by the executor
\* and the invocation ends in a reported failure.
C1_AtMostFiveAttempts ==
    /\ fetches <= 5
    /\ nWaits <= 4
    /\ (fetches = 5 /\ pc # "fetching" /\ QualifyingFailure(res)) =>
          /\ pc \in {"reading", "rejected", "done"}
          /\ ~timer
          /\ nWaits = 4
          /\ res.status = 0 =>
                exec = "Failed" /\ err = Error(<<"fetch failed">>)
          /\ res.status # 0 => exec = "Succeeded"
          /\ pc = "done" => Len(Failures) = 1 /\ Outputs = <<>>

C1_Witness ==
    /\ pc = "done"
    /\ fetches = 5
    /\ res.status = 429
    /\ Len(Failures) = 1

\* C2: once the executor has started, it eventually reaches Succeeded or
\* Failed, whatever the outcomes of the attempts.
C2_ExecutorTerminates == (exec = "Attempting") ~> (exec \in {"Succeeded", "Failed"})

C2_Witness == exec = "Failed" /\ fetches = 5 /\ nWaits = 4

\* C3: the stored backoff is 500 at the start and min(2 * backoff, 8000) after
\* each retry, so it never exceeds 8000 and never decreases; a wait that is not
\* driven by a Retry-After header is 500, 1000, 2000, 4000 for retry 1..4.
C3_BackoffSequence ==
    /\ [](/\ nWaits \in 0..4
          /\ backoffMs = BackoffSequence[nWaits + 1]
          /\ backoffMs <= 8000
          /\ (pc = "sleeping" /\ ~res.ra.present) =>
                nWaits <= 3 /\ waitMs = BackoffSequence[nWaits + 1])
    /\ [][backoffMs' >= backoffMs]_vars

C3_Witness ==
    /\ pc = "sleeping"
    /\ ~res.ra.present
    /\ nWaits = 3
    /\ waitMs = 4000

\* C4: on a retried 429 whose Retry-After is a non-negative integer N the wait
\* is N, and the stored backoff still doubles from its own value.
C4_RetryAfterWait ==
    /\ [](/\ pc \in {"draining", "sleeping"}
          /\ res.status = 429
          /\ res.ra.present
          /\ res.ra.text # <<>>
          /\ AllDigits(res.ra.text)
          => waitMs = DecVal(res.ra.text) /\ backoffMs = BackoffSequence[nWaits + 1])
    /\ [][(pc = "sleeping" /\ pc' # "sleeping") =>
             backoffMs' = Min(2 * backoffMs, 8000)]_vars

C4_Witness ==
    /\ pc = "sleeping"
    /\ res.status = 429
    /\ res.ra.text = <<"2">>
    /\ waitMs = 2
    /\ backoffMs = 1000

\* C5: when a 2xx response arrives after k retry-eligible failures, there were
\* k + 1 attempts and k waits, no failure is reported and the outputs are those
\* of interpreting that response alone.
C5_RetriesInvisible ==
    (pc = "done" /\ exec = "Succeeded" /\ Ok(res.status) /\ payload # NoPayload) =>
        /\ fetches = nWaits + 1
        /\ Failures = <<>>
        /\ \E b \in Bodies :
              /\ readJsonSafely(b) = payload
              /\ Outputs = SelectSeq(EmitOutputs(readJsonSafely(b),
                                                 OperationOf(getInputs(inputs))),
                                     IsSetOutput)

\* C6: a response that is neither 429 nor 5xx ends the executor at once in
\* Succeeded: no wait, no further attempt, the stored backoff unchanged, and
\* no error before the response is interpreted.
C6_FinalResponseReturned ==
    /\ [](/\ res.status # 0
          /\ ~QualifyingFailure(res)
          => /\ pc \in {"reading", "rejected", "done"}
             /\ exec = "Succeeded"
             /\ ~timer
             /\ inFlight = 0
             /\ waitMs = 0
             /\ fetches = nWaits + 1
             /\ backoffMs = BackoffSequence[fetches]
             /\ pc = "reading" => ~err.raised /\ Failures = <<>>)
    /\ [][(res.status # 0 /\ ~QualifyingFailure(res)) =>
             /\ res' = res
             /\ fetches' = fetches
             /\ nWaits' = nWaits
             /\ backoffMs' = backoffMs]_vars

C6_Witness ==
    /\ pc = "reading"
    /\ res.status = 404
    /\ fetches = 3
    /\ backoffMs = 2000

\* the inputs C7 calls invalid
InvalidInputs(in) ==
    \/ IsBlank(in.namespace) \/ ~NAME_RE(in.namespace)
    \/ IsBlank(in.key) \/ ~NAME_RE(in.key)
    \/ OperationOf(in) \in {"set", "update", "reset", "delete"} /\ IsBlank(in.admin_key)
    \/ OperationOf(in) \in {"set", "update"} /\ in.value = <<>>
    \/ OperationOf(in) \in {"set", "update"} /\ ~IsIntegerText(in.value)
    \/ OperationOf(in) = "create" /\ in.initializer # <<>>
         /\ ~IsIntegerText(in.initializer)

\* C7: an invocation with invalid inputs makes no attempt and no wait, and
\* ends in a reported failure.
C7_ValidationBeforeNetwork ==
    InvalidInputs(getInputs(inputs)) =>
        /\ fetches = 0
        /\ nWaits = 0
        /\ inFlight = 0
        /\ ~timer
        /\ pc \in {"start", "rejected", "done"}
        /\ pc # "start" => err.raised
        /\ pc = "done" => Failures = <<SetFailed(err.msg)>>

C7_Witness ==
    /\ pc = "done"
    /\ OperationOf(getInputs(inputs)) = "set"
    /\ getInputs(inputs).value = <<"2", ".", "5">>
    /\ fetches = 0
    /\ Len(Failures) = 1

\* C8: at most one exchange is in flight, and an attempt starts only when the
\* previous exchange has settled and the wait after it has elapsed.
C8_SequentialAttempts ==
    /\ [](inFlight <= 1 /\ (inFlight = 1 <=> pc = "fetching") /\ (timer => inFlight = 0))
    /\ [][fetches' # fetches =>
             /\ fetches' = fetches + 1
             /\ inFlight = 0
             /\ ~timer
             /\ nWaits = fetches]_vars

C8_Witness == inFlight = 1 /\ fetches = 3 /\ nWaits = 2

\* C9: the input admin_key is marked secret before a request carries it, and
\* an admin_key emitted as output was marked secret before the emission.
C9_SecretBeforeUse ==
    /\ (fetches > 0 /\ req.authorization # <<>>) =>
          \E i \in 1..Len(log) : log[i] = SetSecret(getInputs(inputs).admin_key)
    /\ \A i \in 1..Len(log) :
          (log[i].call = "setOutput" /\ log[i].name = "admin_key") =>
              \E j \in 1..(i - 1) : log[j] = SetSecret(log[i].text)

\* C10: an invocation that ends with an error has reported exactly that
\* error's message, once; an invocation that ends without error has reported
\* no failure.
C10_ErrorsReportedOnce ==
    /\ Len(Failures) <= 1
    /\ pc = "done" =>
          /\ err.raised => Failures = <<SetFailed(err.msg)>>
          /\ ~err.raised => Failures = <<>>
          /\ ValidationError(getInputs(inputs)).raised => err.raised
          /\ exec = "Failed" => err = Error(<<"fetch failed">>)
          /\ (exec = "Succeeded" /\ ~Ok(res.status)) => err.raised
          /\ (exec = "Succeeded" /\ payload \in {NoPayload, [kind |-> "null", obj |-> EmptyObject]})
                => err.raised

C10_Witness ==
    /\ pc = "done"
    /\ exec = "Failed"
    /\ Failures = <<SetFailed(<<"fetch failed">>)>>

\* v occurs in text m as a run of consecutive elements
Contains(m, v) ==
    \E i \in 0..(Len(m) - Len(v)) : \A j \in 1..Len(v) : m[i + j] = v[j]

\* C11: from the first attempt on, the request of a read operation is a GET
\* with Accept and no Authorization, also when an admin_key was supplied; the
\* request of an admin operation is a POST with Accept and Authorization:
\* Bearer <admin_key>; the admin key is nowhere in the URL.
C11_RequestPartition ==
    LET in == getInputs(inputs)
        op == OperationOf(in)
    IN  fetches > 0 =>
          /\ req.accept = "application/json"
          /\ op \in {"hit", "create", "get", "info"} =>
                req.method = "GET" /\ req.authorization = <<>>
          /\ op \in {"set", "update", "reset", "delete"} =>
                req.method = "POST" /\ req.authorization = <<"Bearer ">> \o in.admin_key
          /\ in.admin_key # <<>> => ~Contains(req.url, in.admin_key)

C11_Witness ==
    /\ fetches = 2
    /\ OperationOf(getInputs(inputs)) = "get"
    /\ getInputs(inputs).admin_key = <<"s", "k", "1">>
    /\ req.method = "GET"
    /\ req.authorization = <<>>

\* an identifier as the service defines it
IdentifierChars == Letters \cup Digits \cup {"_", ".", "-"}

ValidIdentifier(s) ==
    Len(s) \in 3..64 /\ \A i \in 1..Len(s) : s[i] \in IdentifierChars

OnlySpaces(s) == \A i \in 1..Len(s) : s[i] = " "

\* the names among namespace and key that are not identifiers
BadNameInputs == {k \in {"namespace", "key"} : ~ValidIdentifier(inputs[k])}

\* C12 as stated: a name of 3 to 64 identifier characters passes, any other
\* name fails and the failure message contains the offending value.
C12_MessageHasValue ==
    pc # "start" =>
        /\ err.raised <=> BadNameInputs # {}
        /\ \A k \in BadNameInputs : Contains(err.msg, inputs[k])

\* C12 (amended): a name of 3 to 64 identifier characters passes, any other
\* name fails; the message contains the offending value when the value is not
\* blank, and for an empty or blank value it names the missing input instead.
C12_IdentifierValidation ==
    pc # "start" =>
        /\ err.raised <=> BadNameInputs # {}
        /\ \A k \in BadNameInputs :
              IF OnlySpaces(inputs[k])
              THEN err.msg = <<"Missing required input: ", k>>
              ELSE Contains(err.msg, inputs[k]) /\ Contains(err.msg, <<k>>)

C12_Witness ==
    /\ pc = "done"
    /\ inputs.key = Repeat("a", 65)
    /\ Contains(err.msg, Repeat("a", 65))
    /\ Len(Failures) = 1

\* a retried 429 is being handled: its wait is determined or running
Retrying429 == pc \in {"draining", "sleeping"} /\ res.status = 429

\* the Retry-After text is a negative integer literal
IsNegativeText(t) == Len(t) >= 2 /\ t[1] = "-" /\ AllDigits(Tail(t))

\* C13 as stated: on a retried 429 the wait is the Retry-After value when the
\* header is a non-negative integer and the stored backoff in every other
\* case, a negative integer included; the attempt is counted and the backoff
\* doubles once per retry.
C13_NegativeWaitsBackoff ==
    /\ attempt = fetches
    /\ backoffMs = BackoffSequence[nWaits + 1]
    /\ Retrying429 =>
          waitMs = IF res.ra.present /\ res.ra.text # <<>> /\ AllDigits(res.ra.text)
                   THEN DecVal(res.ra.text)
                   ELSE backoffMs

\* C13 (amended): as stated, except that a negative integer gives a wait of 0.
C13_WaitSelection ==
    /\ attempt = fetches
    /\ backoffMs = BackoffSequence[nWaits + 1]
    /\ Retrying429 =>
          waitMs = IF res.ra.present /\ res.ra.text # <<>> /\ AllDigits(res.ra.text)
                   THEN DecVal(res.ra.text)
                   ELSE IF res.ra.present /\ IsNegativeText(res.ra.text)
                   THEN 0
                   ELSE backoffMs

C13_Witness ==
    /\ pc = "sleeping"
    /\ res = [status |-> 429, ra |-> Header(<<"-", "3">>)]
    /\ waitMs = 0
    /\ backoffMs = 2000

\* C14: whenever the wait after a retried 429 is running, the body of that
\* response has been consumed, whatever its Retry-After header and whether or
\* not reading the body failed.
C14_DrainedBeforeWait ==
    (pc = "sleeping" /\ res.status = 429) => drained

\* C15: Retry-After is applied only to 429.  While a retried response with a
\* status from 500 to 599 is being drained or waited for, the wait is the stored
\* backoff, whatever Retry-After header the response carries, and so is the wait
\* after a network-level failure; when that wait ends the stored backoff
\* doubles, capped at 8000.
Retrying5xx ==
    pc \in {"draining", "sleeping"} /\ res.status >= 500 /\ res.status <= 599

RetryingNetworkFailure == pc = "sleeping" /\ res = NoResponse

C15_ServerErrorIgnoresHeader ==
    /\ [](Retrying5xx \/ RetryingNetworkFailure => waitMs = backoffMs)
    /\ [][(Retrying5xx \/ RetryingNetworkFailure) /\ pc = "sleeping" /\ pc' # "sleeping"
            => /\ pc' = "attempt"
               /\ backoffMs' = Min(2 * backoffMs, 8000)
               /\ attempt' = attempt]_vars

C15_Witness ==
    /\ pc = "sleeping"
    /\ res.status = 500
    /\ res.ra.present
    /\ res.ra.text = <<"2">>
    /\ drained
    /\ waitMs = 1000
    /\ backoffMs = 1000

\* C16: the status alone decides the result of interpreting a response whose
\* body was delivered: a status from 200 to 299 ends without a reported failure
\* for every body (empty, object, null, other JSON value, non-JSON text), and
\* any other status ends with exactly one reported failure.
C16_StatusDecidesResult ==
    (pc = "done" /\ payload # NoPayload) =>
        IF res.status >= 200 /\ res.status <= 299
        THEN Failures = <<>>
        ELSE Len(Failures) = 1

\* C17: when the executor has returned a response whose status is outside
\* 200..299 (a 429 or 5xx returned on the 5th attempt included) and its body was
\* delivered, exactly one failure is reported; its message is the payload's
\* error field when that is a string (the raw text of a non-JSON body included),
\* otherwise "Request failed with status <code>", followed in both cases by
\* " (operation=<operation>)".
TerminalResponse ==
    /\ pc = "done"
    /\ exec = "Succeeded"
    /\ payload # NoPayload
    /\ ~(res.status >= 200 /\ res.status <= 299)

ExpectedFailureMessage ==
    (IF payload.kind = "object" /\ payload.obj["error"].t = "str"
     THEN payload.obj["error"].s
     ELSE <<"Request failed with status ">> \o NatToStr(res.status))
      \o <<" (operation=", OperationOf(getInputs(inputs)), ")">>

AllowedOutputs(op) ==
    {"value"}
      \cup (IF op = "create" THEN {"namespace", "key", "admin_key"} ELSE {})
      \cup (IF op = "info"
            THEN {"exists", "expires_in", "expires_str", "full_key", "is_genuine"}
            ELSE {})
      \cup (IF op = "delete" THEN {"status", "message"} ELSE {})

PayloadField(f) == IF payload.kind = "object" THEN payload.obj[f] ELSE Absent

Emitted(f) == \E i \in 1..Len(Outputs) : Outputs[i].name = f

EndedOn2xx ==
    /\ pc = "done"
    /\ payload # NoPayload
    /\ res.status >= 200
    /\ res.status <= 299

C18_OutputProjection ==
    EndedOn2xx =>
        /\ \A f \in Fields :
              Emitted(f) <=> /\ f \in AllowedOutputs(OperationOf(getInputs(inputs)))
                             /\ PayloadField(f).t \notin {"absent", "null"}
        /\ \A i \in 1..Len(Outputs) :
              /\ Outputs[i].name \in Fields
              /\ Outputs[i].text = ToText(PayloadField(Outputs[i].name))
              /\ \A j \in 1..Len(Outputs) : Outputs[j].name = Outputs[i].name => j = i

C18_Witness ==
    /\ EndedOn2xx
    /\ inputs.operation = "info"
    /\ payload.obj["exists"] = Num(10)
    /\ payload.obj["namespace"] = Str(<<"a", "b", "c", "1", "2", "3">>)
    /\ Outputs = <<SetOutput("exists", <<"1", "0">>)>>

\* C19: every request issued targets one of the eight operations: once an
\* attempt has been made, the operation segment of the request's path is one of
\* hit, create, get, info, set, update, reset, delete.
C19_OnlyEightOperations ==
    fetches > 0 => req.url[3] \in Operations

\* C20: outputs and failure exclude each other.  Whenever a named output has
\* been emitted, the executor has returned a response with a status from 200 to
\* 299, no failure has been or will be reported, no error is pending, and no
\* exchange or wait is outstanding.
C20_OutputsExcludeFailure ==
    Outputs # <<>> =>
        /\ pc = "done"
        /\ exec = "Succeeded"
        /\ res.status >= 200
        /\ res.status <= 299
        /\ Failures = <<>>
        /\ ~err.raised
        /\ ~timer
        /\ inFlight = 0

C20_Witness ==
    /\ Outputs = <<SetOutput("value", <<"1", "0">>)>>
    /\ fetches = 3
    /\ nWaits = 2
    /\ backoffMs = 2000

====
